---- MODULE Spec2Model ----
(***************************************************************************)
(* Model of recommendation.py, the Streamlit pet care chat.                *)
(*                                                                         *)
(* The script is re-executed from the top on every interaction of the      *)
(* session.  One action of the model is one script execution, except that  *)
(* the execution of a chat input is cut at the blocking model call         *)
(* (conversation_chain.invoke, line 153): ChatInput runs the script up to  *)
(* the call, ModelReturn / ModelFail are the two ways the call can end.    *)
(* An accepted submission ends its execution at st.rerun() (line 133); the *)
(* execution the script runner then starts is a step of its own.           *)
(*                                                                         *)
(* The widget values of a form submission are inputs of SubmitForm and     *)
(* are drawn from the option lists of the code and from small text sets.   *)
(***************************************************************************)
EXTENDS Integers, Sequences, FiniteSets, TLC

VARIABLES
    api_key,         \* os.getenv("GOOGLE_API_KEY"); "" stands for None or ""
    keys,            \* the keys present in st.session_state
    form_submitted,  \* st.session_state.form_submitted
    pet_info,        \* st.session_state.pet_info
    messages,        \* st.session_state.messages
    form,            \* locals of the form block in the latest execution that ran it
    user_input,      \* the chat input of the latest execution, "" when there was none
    memory,          \* the ConversationBufferMemory object of the latest execution
    calls,           \* the invocations of the model made so far, in order
    displayed,       \* the chat messages written to the page by the latest execution
    ui               \* what the latest execution left on the page

vars == <<api_key, keys, form_submitted, pet_info, messages, form, user_input,
          memory, calls, displayed, ui>>

----------------------------------------------------------------------------
(* Bounds and input sets *)

MaxTurns == 3

ApiKeys   == {"", "AIza"}
Names     == {"", "Rex"}
Texts     == {"", "Please select...", "Other", "Catahoula Leopard Dog"}
Ages      == {"", "3"}
Behaviors == {""}
Diets     == {"kibble"}
Exercises == {"two walks"}
Inputs    == {"suggest a diet", "how much exercise?"}
Responses == {"- feed twice a day", "- walk daily"}

----------------------------------------------------------------------------
(* Helpers *)

Range(s) == {s[i] : i \in 1..Len(s)}

Last(s) == s[Len(s)]

IsPrefix(s, t) == Len(s) <= Len(t) /\ SubSeq(t, 1, Len(s)) = s

----------------------------------------------------------------------------
(* The form's option lists *)

Placeholder == "Please select..."

species_options == <<"Please select...", "Dog", "Cat", "Bird", "Rabbit", "Other">>

dog_breeds == <<"Please select...",
                "Labrador Retriever", "German Shepherd", "Golden Retriever",
                "Bulldog", "Beagle", "Poodle", "Rottweiler",
                "Dachshund", "Siberian Husky", "Other">>

cat_breeds == <<"Please select...",
                "Persian Cat", "Maine Coon", "Siamese Cat",
                "British Shorthair", "Bengal Cat", "Sphynx", "Ragdoll", "Other">>

\* The values the breed selectbox can hold; "" when no selectbox is rendered.
BreedOptions(species) ==
    IF species = "Dog" THEN Range(dog_breeds)
    ELSE IF species = "Cat" THEN Range(cat_breeds)
    ELSE {""}

\* Whether a free-text breed input is rendered.
TextInputShown(species, selected_breed) ==
    \/ species \in {"Dog", "Cat"} /\ selected_breed = "Other"
    \/ species \in {"Bird", "Rabbit", "Other"}

\* other_breed: "" unless the "Please type the breed" input is rendered.
OtherBreed(species, selected_breed, typed) ==
    IF species \in {"Dog", "Cat"} /\ selected_breed = "Other" THEN typed ELSE ""

ResolveBreedPicker(species, selected_breed, typed) ==
    IF species \in {"Dog", "Cat"} THEN selected_breed
    ELSE IF species \in {"Bird", "Rabbit", "Other"} THEN typed
    ELSE ""

\* breed, as lines 83-111 resolve it.
ResolveBreed(species, selected_breed, typed) ==
    IF species = "Dog"
    THEN IF selected_breed = "Other"
         THEN OtherBreed(species, selected_breed, typed) ELSE selected_breed
    ELSE IF species = "Cat"
    THEN IF selected_breed = "Other"
         THEN OtherBreed(species, selected_breed, typed) ELSE selected_breed
    ELSE IF species \in {"Bird", "Rabbit", "Other"}
    THEN typed
    ELSE ""

\* The widgets' values before anything was entered.
DefaultForm ==
    [name |-> "", species |-> Placeholder, selected_breed |-> "", other_breed |-> "",
     breed |-> "", age |-> "", behavior |-> "", diet |-> "", exercise |-> "",
     submit |-> FALSE]

----------------------------------------------------------------------------
(* Form validation and serialisation *)

IsRejectedNoAge(species, breed, age) ==
    (species = "Please select...") \/ (breed = "" \/ breed = "Please select...")

IsRejectedBreedTypo(species, breed, age) ==
    (species = "Please select...") \/ (breed = "" \/ breed # "Please select...")
        \/ (age = "")

\* The condition of line 121.
IsRejected(species, breed, age) ==
    (species = "Please select...") \/ (breed = "" \/ breed = "Please select...")
        \/ (age = "")

\* The f-string of lines 125-128.
SerializePetInfo(name, species, breed, age, behavior, diet, exercise) ==
    "Name: " \o name \o "\nSpecies: " \o species \o "\nBreed: " \o breed
        \o "\nAge: " \o age \o "\n"
        \o "Behavior/Concerns: " \o behavior \o "\nDiet: " \o diet
        \o "\nExercise: " \o exercise

\* The message of lines 129-132 (its dash is written "--" here).
Greeting ==
    [role |-> "assistant",
     content |-> "Thanks! What recommendations do you want -- diet, exercise, or wellness tips?"]

AcceptedMessagesNone(msgs) == msgs

AcceptedMessagesUserRole(msgs) ==
    Append(msgs, [role |-> "user", content |-> Greeting.content])

AcceptedMessages(msgs) == Append(msgs, Greeting)

UserMessage(text) == [role |-> "user", content |-> text]

AssistantMessage(text) == [role |-> "assistant", content |-> text]

----------------------------------------------------------------------------
(* LangChain components *)

\* A ConversationBufferMemory as constructed at lines 46-51: no turns.
NewMemory == <<>>

\* The text the memory puts in the chat_history slot: one "Human: .." and one
\* "AI: .." line per stored turn, joined by newlines.
RECURSIVE BufferString(_)
BufferString(mem) ==
    IF mem = <<>> THEN ""
    ELSE LET rest == BufferString(SubSeq(mem, 1, Len(mem) - 1))
             turn == "Human: " \o Last(mem).human \o "\nAI: " \o Last(mem).ai
         IN  IF rest = "" THEN turn ELSE rest \o "\n" \o turn

\* The chain stores the turn in its memory after the model has answered.
SaveContext(mem, human, ai) == Append(mem, [human |-> human, ai |-> ai])

ChainInputsNoProfile(pet, mem, text) ==
    [pet_info |-> "", chat_history |-> BufferString(mem), human_input |-> text]

\* The three slots of the prompt for one invocation (lines 153-156).
ChainInputs(pet, mem, text) ==
    [pet_info |-> pet, chat_history |-> BufferString(mem), human_input |-> text]

----------------------------------------------------------------------------
(* Session state *)

SessionKeys == {"form_submitted", "pet_info", "messages"}

\* Lines 66-71: a key that is absent gets its default.
SessionValue(key, current, default) == IF key \in keys THEN current ELSE default

cur_form_submitted == SessionValue("form_submitted", form_submitted, FALSE)
cur_pet_info       == SessionValue("pet_info", pet_info, "")
cur_messages       == SessionValue("messages", messages, <<>>)

StartedAlways == TRUE

\* Lines 19-28 let the execution continue: the key is set (and the client
\* was constructed).
Started == api_key # ""

FormGuardAlways(fs) == TRUE

FormGuard(fs) == ~fs

ChatGuardAlways(fs) == TRUE

ChatGuard(fs) == ~FormGuard(fs)

ReplayTwice(msgs) == msgs \o msgs

\* The replay loop of lines 142-144.
Replay(msgs) == msgs

Idle == ui # "thinking"

\* No st.rerun() (line 133) is pending: the execution it requests carries no
\* widget input, neither a form submission nor a chat input.
NoRerunPending == ui # "rerun"

----------------------------------------------------------------------------
Init ==
    /\ api_key \in ApiKeys
    /\ keys = {}
    /\ form_submitted = FALSE
    /\ pet_info = ""
    /\ messages = <<>>
    /\ form = DefaultForm
    /\ user_input = ""
    /\ memory = NewMemory
    /\ calls = <<>>
    /\ displayed = <<>>
    /\ ui = "none"

\* An execution that stops at line 23 (no key) or line 28 (the client's
\* constructor raised): nothing below line 28 runs.
RunHalts ==
    /\ Idle
    /\ ui' = "halted"
    /\ displayed' = <<>>
    /\ user_input' = ""
    /\ memory' = NewMemory
    /\ UNCHANGED <<api_key, keys, form_submitted, pet_info, messages, form, calls>>

\* An execution in form mode with the submit button not pressed.
RenderForm ==
    /\ Idle
    /\ Started
    /\ FormGuard(cur_form_submitted)
    /\ keys' = SessionKeys
    /\ form_submitted' = cur_form_submitted
    /\ pet_info' = cur_pet_info
    /\ messages' = cur_messages
    /\ form' = [form EXCEPT !.submit = FALSE]
    /\ user_input' = ""
    /\ memory' = NewMemory
    /\ displayed' = <<>>
    /\ ui' = "form"
    /\ UNCHANGED <<api_key, calls>>

\* An execution in form mode with the submit button pressed (lines 74-133).
\* An accepted submission ends at st.rerun(): nothing more is written to the
\* page, which still holds the form, and the next execution is the one the
\* script runner starts for the rerun (RenderChat, or RunHalts).
SubmitForm(name, species, selected_breed, typed, age, behavior, diet, exercise) ==
    LET breed == ResolveBreed(species, selected_breed, typed) IN
    /\ Idle
    /\ NoRerunPending
    /\ Started
    /\ FormGuard(cur_form_submitted)
    /\ keys' = SessionKeys
    /\ form' = [name |-> name, species |-> species,
                selected_breed |-> selected_breed,
                other_breed |-> OtherBreed(species, selected_breed, typed),
                breed |-> breed, age |-> age, behavior |-> behavior,
                diet |-> diet, exercise |-> exercise, submit |-> TRUE]
    /\ user_input' = ""
    /\ memory' = NewMemory
    /\ IF IsRejected(species, breed, age)
       THEN /\ form_submitted' = cur_form_submitted
            /\ pet_info' = cur_pet_info
            /\ messages' = cur_messages
            /\ displayed' = <<>>
            /\ ui' = "warning"
       ELSE /\ form_submitted' = TRUE
            /\ pet_info' = SerializePetInfo(name, species, breed, age,
                                            behavior, diet, exercise)
            /\ messages' = AcceptedMessages(cur_messages)
            /\ displayed' = <<>>
            /\ ui' = "rerun"
    /\ UNCHANGED <<api_key, calls>>

\* An execution in chat mode with no chat input (lines 136-147): a plain
\* re-execution, or the one st.rerun() requested.
RenderChat ==
    /\ Idle
    /\ Started
    /\ ChatGuard(cur_form_submitted)
    /\ keys' = SessionKeys
    /\ form_submitted' = cur_form_submitted
    /\ pet_info' = cur_pet_info
    /\ messages' = cur_messages
    /\ user_input' = ""
    /\ memory' = NewMemory
    /\ displayed' = Replay(cur_messages)
    /\ ui' = "chat"
    /\ UNCHANGED <<api_key, form, calls>>

ChatInputAppendAfterCall(text) ==
    /\ Idle
    /\ NoRerunPending
    /\ Started
    /\ ChatGuard(cur_form_submitted)
    /\ text # ""
    /\ Len(calls) < MaxTurns
    /\ keys' = SessionKeys
    /\ form_submitted' = cur_form_submitted
    /\ pet_info' = cur_pet_info
    /\ user_input' = text
    /\ memory' = NewMemory
    /\ messages' = cur_messages
    /\ displayed' = Append(Replay(cur_messages), UserMessage(text))
    /\ calls' = Append(calls, ChainInputs(cur_pet_info, memory', text))
    /\ ui' = "thinking"
    /\ UNCHANGED <<api_key, form>>

ChatInputInvokesTwice(text) ==
    /\ Idle
    /\ NoRerunPending
    /\ Started
    /\ ChatGuard(cur_form_submitted)
    /\ text # ""
    /\ Len(calls) < MaxTurns
    /\ keys' = SessionKeys
    /\ form_submitted' = cur_form_submitted
    /\ pet_info' = cur_pet_info
    /\ user_input' = text
    /\ memory' = NewMemory
    /\ messages' = Append(cur_messages, UserMessage(text))
    /\ displayed' = Append(Replay(cur_messages), UserMessage(text))
    /\ calls' = calls \o <<ChainInputs(cur_pet_info, memory', text),
                            ChainInputs(cur_pet_info, memory', text)>>
    /\ ui' = "thinking"
    /\ UNCHANGED <<api_key, form>>

\* An execution in chat mode with a chat input, up to the model call
\* (lines 136-153).
ChatInput(text) ==
    /\ Idle
    /\ NoRerunPending
    /\ Started
    /\ ChatGuard(cur_form_submitted)
    /\ text # ""
    /\ Len(calls) < MaxTurns
    /\ keys' = SessionKeys
    /\ form_submitted' = cur_form_submitted
    /\ pet_info' = cur_pet_info
    /\ user_input' = text
    /\ memory' = NewMemory
    /\ messages' = Append(cur_messages, UserMessage(text))
    /\ displayed' = Append(Replay(cur_messages), UserMessage(text))
    /\ calls' = Append(calls, ChainInputs(cur_pet_info, memory', text))
    /\ ui' = "thinking"
    /\ UNCHANGED <<api_key, form>>

ModelReturnInsertBefore(response) ==
    /\ ui = "thinking"
    /\ memory' = SaveContext(memory, user_input, response)
    /\ messages' = SubSeq(messages, 1, Len(messages) - 1)
                       \o <<AssistantMessage(response), Last(messages)>>
    /\ displayed' = Append(displayed, AssistantMessage(response))
    /\ ui' = "chat"
    /\ UNCHANGED <<api_key, keys, form_submitted, pet_info, form, user_input, calls>>

\* The model call returns `response` (lines 153-161).
ModelReturn(response) ==
    /\ ui = "thinking"
    /\ memory' = SaveContext(memory, user_input, response)
    /\ messages' = Append(messages, AssistantMessage(response))
    /\ displayed' = Append(displayed, AssistantMessage(response))
    /\ ui' = "chat"
    /\ UNCHANGED <<api_key, keys, form_submitted, pet_info, form, user_input, calls>>

ModelFailRollback ==
    /\ ui = "thinking"
    /\ ui' = "error"
    /\ messages' = SubSeq(messages, 1, Len(messages) - 1)
    /\ UNCHANGED <<api_key, keys, form_submitted, pet_info, form,
                   user_input, memory, calls, displayed>>

\* The model call raises: the exception leaves the script at line 153.
ModelFail ==
    /\ ui = "thinking"
    /\ ui' = "error"
    /\ UNCHANGED <<api_key, keys, form_submitted, pet_info, messages, form,
                   user_input, memory, calls, displayed>>

Next ==
    \/ RunHalts
    \/ RenderForm
    \/ \E name \in Names, species \in Range(species_options), age \in Ages,
          behavior \in Behaviors, diet \in Diets, exercise \in Exercises :
          \E selected_breed \in BreedOptions(species) :
             \E typed \in (IF TextInputShown(species, selected_breed)
                           THEN Texts ELSE {""}) :
                SubmitForm(name, species, selected_breed, typed, age,
                           behavior, diet, exercise)
    \/ RenderChat
    \/ \E text \in Inputs : ChatInput(text)
    \/ \E response \in Responses : ModelReturn(response)
    \/ ModelFail

Spec == Init /\ [][Next]_vars

----------------------------------------------------------------------------
(* Reading the message list *)

\* The positions of the user messages, in order.
RECURSIVE UserPos(_)
UserPos(msgs) ==
    IF msgs = <<>> THEN <<>>
    ELSE LET front == UserPos(SubSeq(msgs, 1, Len(msgs) - 1))
         IN  IF Last(msgs).role = "user" THEN Append(front, Len(msgs)) ELSE front

\* The positions of the assistant replies, in order: the assistant messages
\* after the first message, which is the form's greeting.
RECURSIVE ReplyPos(_)
ReplyPos(msgs) ==
    IF msgs = <<>> THEN <<>>
    ELSE LET front == ReplyPos(SubSeq(msgs, 1, Len(msgs) - 1))
         IN  IF Last(msgs).role = "assistant" /\ Len(msgs) > 1
             THEN Append(front, Len(msgs)) ELSE front

\* The assistant messages, in order.
AssistantMessages(msgs) == SelectSeq(msgs, LAMBDA m : m.role = "assistant")

\* The completed turns of a message list: each user message directly
\* followed by an assistant message, as a human/AI pair.
RECURSIVE TurnsOf(_)
TurnsOf(msgs) ==
    IF Len(msgs) < 2 THEN <<>>
    ELSE IF msgs[1].role = "user" /\ msgs[2].role = "assistant"
    THEN <<[human |-> msgs[1].content, ai |-> msgs[2].content]>>
             \o TurnsOf(SubSeq(msgs, 3, Len(msgs)))
    ELSE TurnsOf(SubSeq(msgs, 2, Len(msgs)))

\* The number of invocations that raised.
Failures == Len(calls) - Len(ReplyPos(messages)) - (IF ui = "thinking" THEN 1 ELSE 0)

----------------------------------------------------------------------------
(* Claims *)

\* C1: a form submission made while form_submitted is false whose species is
\* the placeholder, or whose resolved breed is empty or the placeholder, or
\* whose age is empty, is rejected: form_submitted stays false, pet_info stays
\* empty and messages is unchanged.
C1_InvalidSubmissionRejected ==
    [][(/\ ~form_submitted
        /\ form'.submit
        /\ \/ form'.species = "Please select..."
           \/ form'.breed = ""
           \/ form'.breed = "Please select..."
           \/ form'.age = "")
       => (/\ form_submitted' = FALSE
           /\ pet_info' = ""
           /\ messages' = messages
           /\ ui' \in {"warning", "halted"})]_vars

\* A rejected submission: a dog of breed "Other" with the breed left empty.
C1_Witness ==
    /\ ui = "warning"
    /\ form.submit
    /\ form.species = "Dog"
    /\ form.selected_breed = "Other"
    /\ form.breed = ""
    /\ form.age = "3"
    /\ ~form_submitted
    /\ messages = <<>>

\* C2: form_submitted goes from false to true at most once, only by a valid
\* submission, and never back; the step that sets it appends exactly the
\* greeting to messages, and the form is not processed again afterwards.
C2_SubmittedOnce ==
    [][/\ (form_submitted => form_submitted' /\ form' = form)
       /\ ((~form_submitted /\ form_submitted')
            => /\ form'.submit
               /\ form'.species \in {"Dog", "Cat", "Bird", "Rabbit", "Other"}
               /\ form'.breed \notin {"", "Please select..."}
               /\ form'.age # ""
               /\ messages' = Append(messages, Greeting)
               /\ Greeting.role = "assistant")]_vars

\* The form was accepted and a chat turn has been answered since.
C2_Witness ==
    /\ form_submitted
    /\ form.submit
    /\ ui = "chat"
    /\ Len(calls) = 1
    /\ Len(messages) = 3

\* C3, as claimed: also when invocations fail, for every N the Nth user
\* message is before the Nth assistant reply and after the (N-1)th one.
C3_StrictTurnOrder ==
    LET u == UserPos(messages)
        r == ReplyPos(messages)
    IN  /\ \A n \in 1..Len(u) : n <= Len(r) => u[n] < r[n]
        /\ \A n \in 2..Len(u) : (n - 1) <= Len(r) => r[n - 1] < u[n]

\* C3, amended: for every N the Nth user message is before the Nth assistant
\* reply, and every assistant reply directly follows a user message (that of
\* its own turn); the Nth user message is after the (N-1)th reply as long as
\* no invocation has failed.  A failed invocation leaves its user message
\* unanswered and the next user message follows it directly.
C3_TurnOrder ==
    LET u == UserPos(messages)
        r == ReplyPos(messages)
    IN  /\ Len(r) <= Len(u)
        /\ \A n \in 1..Len(r) : u[n] < r[n]
        /\ \A n \in 1..Len(r) : messages[r[n] - 1].role = "user"
        /\ (ui = "chat" /\ memory # <<>>)
             => /\ Len(messages) >= 2
                /\ messages[Len(messages) - 1] = UserMessage(user_input)
                /\ Last(messages) = AssistantMessage(Last(memory).ai)
        /\ Failures = 0 => \A n \in 2..Len(u) : r[n - 1] < u[n]

\* A failed turn followed by an answered one: greeting, user, user, reply.
C3_Witness ==
    /\ Len(messages) = 4
    /\ messages[2].role = "user"
    /\ messages[3].role = "user"
    /\ messages[4].role = "assistant"
    /\ Failures = 1

\* C4, as claimed: every successful invocation adds its pair to the memory,
\* and the transcript slot of the k-th invocation holds all earlier turns of
\* the session, in order.
C4_TranscriptAccumulates ==
    /\ (ui = "chat" /\ memory # <<>>)
         => Last(memory) = [human |-> user_input, ai |-> Last(messages).content]
    /\ \A k \in 1..Len(calls) :
         k <= Len(UserPos(messages))
           => calls[k].chat_history =
                BufferString(TurnsOf(SubSeq(messages, 1, UserPos(messages)[k] - 1)))

\* C5: when an invocation fails, the turn's user message is the last message
\* and stays, no assistant message is appended, form_submitted stays true,
\* pet_info is unchanged and no further invocation is made.
C5_FailureKeepsUserMessage ==
    [][(ui = "thinking" /\ ui' = "error")
       => (/\ Len(messages) > 0
           /\ Last(messages) = UserMessage(user_input)
           /\ messages' = messages
           /\ form_submitted /\ form_submitted'
           /\ pet_info' = pet_info
           /\ calls' = calls)]_vars

\* The first invocation failed: greeting and the unanswered user message.
C5_Witness ==
    /\ ui = "error"
    /\ Len(messages) = 2
    /\ Last(messages) = UserMessage("suggest a diet")
    /\ Len(calls) = 1

\* The state right after the first invocation of the session has returned.
FirstCallReturned == Len(calls) = 1 /\ ui = "chat" /\ memory # <<>>

\* C6, as claimed: the first invocation gets the stored profile, an empty
\* transcript and the input, and its result is the sole assistant message.
C6_SoleAssistantMessage ==
    FirstCallReturned
      => /\ calls[1] = [pet_info |-> pet_info, chat_history |-> "",
                        human_input |-> user_input]
         /\ AssistantMessages(messages) = <<AssistantMessage(memory[1].ai)>>

\* C6, amended: the first invocation gets the stored profile, an empty
\* transcript and the input, and its result is appended as the last message,
\* the only assistant message besides the form's greeting: messages is the
\* greeting, the user message, the reply.
C6_FirstTurn ==
    FirstCallReturned
      => /\ calls[1] = [pet_info |-> pet_info, chat_history |-> "",
                        human_input |-> user_input]
         /\ messages = <<Greeting, UserMessage(user_input),
                         AssistantMessage(memory[1].ai)>>
         /\ AssistantMessages(messages) = <<Greeting, AssistantMessage(memory[1].ai)>>

\* Scenario D: a Ragdoll cat, "suggest a diet", answered.
C6_Witness ==
    /\ FirstCallReturned
    /\ form.species = "Cat"
    /\ form.breed = "Ragdoll"
    /\ user_input = "suggest a diet"
    /\ Len(messages) = 3

\* C7: once set by a valid submission, pet_info is never changed, and every
\* invocation gets exactly the stored text as its profile.
C7_ProfileFrozen ==
    [][/\ (form_submitted => pet_info' = pet_info)
       /\ (form_submitted' => pet_info' # "")
       /\ \A k \in 1..Len(calls') : calls'[k].pet_info = pet_info']_vars

\* Two invocations were made, one failed, and a re-render followed.
C7_Witness ==
    /\ form_submitted
    /\ Len(calls) = 2
    /\ Failures = 1
    /\ ui = "chat"
    /\ user_input = ""
    /\ pet_info = SerializePetInfo("Rex", "Dog", "Beagle", "3", "", "kibble", "two walks")

\* C8: every step leaves the previous messages list a prefix of the new one.
C8_AppendOnly == [][IsPrefix(messages, messages')]_vars

\* Appends by the form, by answered turns and by a failed turn.
C8_Witness ==
    /\ Len(messages) = 6
    /\ ui = "error"

\* C9: a re-render of the chat view without input changes neither
\* form_submitted, pet_info nor messages, invokes the model zero times and
\* displays exactly the stored messages in order; a re-render after a
\* re-render displays the same transcript.
C9_RerenderIdempotent ==
    [][(form_submitted /\ ui' = "chat" /\ user_input' = "")
       => (/\ form_submitted'
           /\ pet_info' = pet_info
           /\ messages' = messages
           /\ calls' = calls
           /\ displayed' = messages
           /\ (ui = "chat" => displayed' = displayed))]_vars

\* A re-rendered chat view with an answered turn in it.
C9_Witness ==
    /\ ui = "chat"
    /\ user_input = ""
    /\ Len(messages) = 3
    /\ displayed = messages

\* C10: the model is invoked only while form_submitted is true and only for a
\* chat input; no form submission, rejected or accepted, invokes it.
C10_ModelOnlyFromChat ==
    [][/\ (calls' # calls
            => /\ form_submitted /\ form_submitted'
               /\ user_input' # ""
               /\ ui' = "thinking"
               /\ Len(calls') = Len(calls) + 1
               /\ IsPrefix(calls, calls')
               /\ Last(calls').human_input = user_input'
               /\ form' = form)
       /\ (~form_submitted' => calls' = <<>>)
       /\ (ui' = "warning" => calls' = <<>>)]_vars

\* The second invocation of a session is in progress.
C10_Witness ==
    /\ ui = "thinking"
    /\ form_submitted
    /\ Len(calls) = 2

\* The breed a submission is meant to store: the listed breed picked for a
\* dog or a cat, the typed text when "Other" is picked or when the species
\* has no picker.
ExpectedBreed ==
    IF form.species \in {"Dog", "Cat"}
    THEN IF form.selected_breed = "Other" THEN form.other_breed
         ELSE form.selected_breed
    ELSE form.breed

\* The profile text that holds `breed` as the breed of the submitted form.
ProfileWithBreed(breed) ==
    SerializePetInfo(form.name, form.species, breed, form.age,
                     form.behavior, form.diet, form.exercise)

\* C11, as claimed: an accepted submission stores the picked listed breed
\* for a dog or a cat, the typed text when "Other" is picked (rejected when
\* that text is empty) or when the species is Bird, Rabbit or Other; "Other"
\* and "Please select..." are never stored as the breed of a dog or a cat.
C11_BreedNeverOther ==
    /\ form_submitted
         => /\ pet_info = ProfileWithBreed(ExpectedBreed)
            /\ form.species \in {"Dog", "Cat"}
                 => ExpectedBreed \notin {"Other", "Please select..."}
    /\ (/\ form.submit
        /\ form.species \in {"Dog", "Cat"}
        /\ form.selected_breed = "Other"
        /\ form.other_breed = "")
         => ~form_submitted

\* C11, amended: as claimed, except that the literal "Other" is stored as
\* the breed of a dog or a cat when the user picks "Other" and types the
\* word "Other" as the free text; a listed pick stores a concrete listed
\* breed, and "Please select..." and the empty text are never stored.
C11_BreedResolution ==
    /\ form_submitted
         => /\ pet_info = ProfileWithBreed(ExpectedBreed)
            /\ ExpectedBreed \notin {"", "Please select..."}
            /\ (form.species = "Dog" /\ form.selected_breed # "Other")
                 => /\ ExpectedBreed = form.selected_breed
                    /\ ExpectedBreed \in Range(dog_breeds) \ {"Other", "Please select..."}
            /\ (form.species = "Cat" /\ form.selected_breed # "Other")
                 => /\ ExpectedBreed = form.selected_breed
                    /\ ExpectedBreed \in Range(cat_breeds) \ {"Other", "Please select..."}
            /\ (form.species \in {"Dog", "Cat"} /\ ExpectedBreed = "Other")
                 => form.selected_breed = "Other" /\ form.other_breed = "Other"
    /\ (/\ form.submit
        /\ form.species \in {"Dog", "Cat"}
        /\ form.selected_breed = "Other"
        /\ form.other_breed = "")
         => ~form_submitted

\* Scenario B: a dog, "Other" picked, "Catahoula Leopard Dog" typed, accepted.
C11_Witness ==
    /\ form_submitted
    /\ form.species = "Dog"
    /\ form.selected_breed = "Other"
    /\ form.other_breed = "Catahoula Leopard Dog"
    /\ pet_info = SerializePetInfo(form.name, "Dog", "Catahoula Leopard Dog", "3",
                                   "", "kibble", "two walks")

\* A submission with a concrete species, a breed and an age.
ValidForm(f) ==
    /\ f.submit
    /\ f.species \in {"Dog", "Cat", "Bird", "Rabbit", "Other"}
    /\ f.breed \notin {"", "Please select..."}
    /\ f.age # ""

\* C12: a rejected submission leaves the form awaiting input, where a valid
\* submission can still be made, and a valid submission processed after a
\* rejected one is accepted as a first one is: form_submitted becomes true,
\* the profile is stored and the one greeting is appended.
C12_RejectionDoesNotLock ==
    [][/\ ui = "warning"
          => /\ ~form_submitted
             /\ messages = <<>>
             /\ ENABLED SubmitForm("Rex", "Dog", "Beagle", "", "3", "",
                                   "kibble", "two walks")
       /\ (/\ ~form_submitted
           /\ ValidForm(form'))
          => /\ form_submitted'
             /\ ui' = "rerun"
             /\ messages' = <<Greeting>>
             /\ pet_info' = SerializePetInfo(form'.name, form'.species, form'.breed,
                                             form'.age, form'.behavior, form'.diet,
                                             form'.exercise)]_vars

\* A rejected submission (no age) after which the form still takes a valid
\* submission.
C12_Witness ==
    /\ ui = "warning"
    /\ form.submit
    /\ form.species = "Cat"
    /\ form.breed = "Ragdoll"
    /\ form.age = ""
    /\ ~form_submitted
    /\ ENABLED SubmitForm("Rex", "Cat", "Ragdoll", "", "3", "", "kibble", "two walks")

\* The step changes no session state field and processes no form.
SessionUntouched ==
    /\ keys' = keys
    /\ form_submitted' = form_submitted
    /\ pet_info' = pet_info
    /\ messages' = messages
    /\ form' = form

\* C13: an execution that finds no credential, or whose client construction
\* fails, halts before the session state is initialised and before the form
\* or the chat runs: it changes no session state field, processes no
\* submission or chat input and invokes the model zero times; without a
\* credential every execution halts so.
C13_HaltBeforeSession ==
    [][/\ ui' = "halted"
          => /\ SessionUntouched
             /\ calls' = calls
             /\ user_input' = ""
             /\ memory' = <<>>
             /\ displayed' = <<>>
       /\ api_key = ""
          => /\ ui' = "halted"
             /\ SessionUntouched
             /\ keys' = {}
             /\ ~form_submitted' /\ pet_info' = "" /\ messages' = <<>>
             /\ calls' = <<>>]_vars

\* The credential is absent and the first execution has halted.
C13_Witness ==
    /\ api_key = ""
    /\ ui = "halted"
    /\ keys = {}
    /\ calls = <<>>

\* C14: every chat input starts exactly one invocation, so the invocations
\* started are as many as the user messages and carry their texts in order;
\* a turn's first step appends the user message alone, its return appends
\* the reply alone, so a completed turn ends the list with the user message
\* and then the reply.
C14_OneInvocationPerInput ==
    [][/\ Len(calls') = Len(UserPos(messages'))
       /\ \A k \in 1..Len(calls') :
            calls'[k].human_input = messages'[UserPos(messages')[k]].content
       /\ calls' # calls
            => /\ Len(calls') = Len(calls) + 1
               /\ messages' = Append(messages, UserMessage(Last(calls').human_input))
       /\ (ui = "thinking" /\ ui' = "chat")
            => /\ calls' = calls
               /\ Len(messages') = Len(messages) + 1
               /\ Last(messages) = UserMessage(Last(calls).human_input)
               /\ Last(messages').role = "assistant"
               /\ Last(messages').content = Last(memory').ai]_vars

\* Three inputs, three invocations, all answered.
C14_Witness ==
    /\ Len(calls) = 3
    /\ Len(UserPos(messages)) = 3
    /\ Len(ReplyPos(messages)) = 3
    /\ Len(messages) = 7
    /\ ui = "chat"

\* C15: form_submitted is true exactly when messages is non-empty and
\* exactly when pet_info is non-empty; a non-empty messages starts with the
\* greeting and every user message is after it.
C15_SessionInvariant ==
    /\ form_submitted <=> messages # <<>>
    /\ form_submitted <=> pet_info # ""
    /\ messages # <<>> => messages[1] = Greeting
    /\ \A i \in 1..Len(messages) : messages[i].role = "user" => i > 1
    /\ ~form_submitted => UserPos(messages) = <<>>

\* A submitted session with a user message after the greeting.
C15_Witness ==
    /\ form_submitted
    /\ pet_info # ""
    /\ Len(messages) = 2
    /\ messages[1] = Greeting
    /\ messages[2] = UserMessage("how much exercise?")

====
